---- MODULE Spec2Model ----
(***************************************************************************)
(* MultiThreadServer (src/src/p2p/multi_thread_server.rs): a registry of   *)
(* peer connections served by a fixed pool of max_peers worker threads.    *)
(* The facade operations run under the mutexes of the struct; the worker   *)
(* threads are modelled one step per lock acquisition or channel receive.  *)
(***************************************************************************)
EXTENDS Integers, Sequences, FiniteSets, TLC

\* max_peers given to new(): the pool has exactly this many worker threads.
MaxPeers == 2
\* how many calls of the facade (add_connection, remove_connection,
\* send_to_peer, stop) a run makes
MaxCalls == 3
\* how many calls of the facade a run that starts with the server full makes
MaxCallsFull == 2
\* how many threads call the facade at the same time
MaxCallers == 2

\* thread ids of `for id in 0..self.get_max_peers()`
Workers == 0 .. (MaxPeers - 1)
\* Connection objects, numbered in the order the listener creates them
Conns == 1 .. MaxCalls
\* the worker holds no connection (the `connection` binding is out of scope)
NoConn == 0

VARIABLES
  connections,     \* Mutex<HashMap<u64, Arc<Connection>>>: peer id -> connection
  thread_channels, \* Mutex<HashMap<usize, Sender<Message>>>: the registered thread ids
  channels,        \* Mutex<HashMap<u64, usize>>: peer id -> thread id
  dispatch,        \* the ThreadMessage channel behind sender / receiver
  inbox,           \* the Message channel of each worker thread
  closed,          \* the connections whose is_closed() is true
  poisoned,        \* the mutexes poisoned by a panic while their guard was held
  peer_of,         \* the peer id of each Connection created so far
  wpc,             \* where each worker thread stands in start()
  wconn,           \* the connection a worker thread holds in `connection`
  stop_pc,         \* where the running stop() call stands
  stop_peers,      \* the peers of stop()'s snapshot not yet removed
  ncalls,          \* number of facade calls made so far
  writes,          \* history: the send_bytes calls made, in order
  live,            \* history: connections added with success and not removed since
  ret,             \* history: the last facade call and what it returned
  guards           \* per thread: the MutexGuards it holds and those it goes for

servervars == <<connections, thread_channels, channels, dispatch, inbox,
                closed, poisoned, peer_of, wpc, wconn, stop_pc, stop_peers,
                ncalls, writes, live, ret>>

vars == <<servervars, guards>>

stopvars == <<stop_pc, stop_peers>>

\* Connection::get_peer_id
PeerOf(c) == peer_of[c]
\* the connections already moved into add_connection
created == 1 .. Len(peer_of)
\* The code compares peer ids and nothing else, so the handshake's ids are
\* numbered in the order they first appear: 1 .. k are in use, k + 1 stands
\* for any id not seen so far.
PeerIds == 1 .. (Cardinality({peer_of[c] : c \in created}) + 1)
workervars == <<wpc, wconn>>

----------------------------------------------------------------------------
\* HashMap::insert
MapInsert(m, k, v) == [x \in (DOMAIN m) \cup {k} |-> IF x = k THEN v ELSE m[x]]
\* HashMap::remove
MapRemove(m, k) == [x \in (DOMAIN m) \ {k} |-> m[x]]

\* A faulty ChanSend: the message overtakes the ones already queued.
ChanSendFront(q, m) == <<m>> \o q
\* mpsc Sender::send: the channel is first-in first-out
ChanSend(q, m) == Append(q, m)

\* a worker thread that has ended has dropped the Receiver of its inbox
ReceiverDropped(w) == wpc[w] \in {"exited", "panicked"}

Listen(c) == [type |-> "Listen", conn |-> c]
Stop == [type |-> "Stop", conn |-> NoConn]
\* `to` is a history field: the peer the caller addressed
SendBytes(b, p) == [type |-> "SendBytes", bytes |-> b, to |-> p]
Exit(p) == [type |-> "Exit", bytes |-> 0, to |-> p]

----------------------------------------------------------------------------
\* The Connection and the reader the server is given.  Their code is not part
\* of the server: each call may succeed or fail with a transport error.

\* what connection.close() may answer: TRUE for Ok, FALSE for Err (the closed
\* flag is set by a close that succeeded)
CloseResults == BOOLEAN
\* what connection.send_bytes(&bytes) may answer: TRUE for Ok, FALSE for Err
SendBytesResults == BOOLEAN
\* the closed flags listen_connection may leave: the read goes through, or
\* it finds the transport closed and marks connection c closed
listen_connection(c) == {closed, closed \cup {c}}

----------------------------------------------------------------------------
\* The queries.
get_max_peers == MaxPeers
get_peer_count == Cardinality(DOMAIN connections)
accept_new_connections == get_peer_count < MaxPeers
\* usize subtraction: the mathematical difference, negative where the code underflows
get_slots_available == MaxPeers - get_peer_count
is_connected_to(p) == p \in DOMAIN connections
get_connection(p) == IF p \in DOMAIN connections THEN "Ok" ELSE "PeerNotFound"
get_connections == {connections[p] : p \in DOMAIN connections}
get_connections_id == {PeerOf(connections[p]) : p \in DOMAIN connections}

\* The threads that take the mutexes: the worker threads, under their ids,
\* and the threads that call the facade.
Callers == MaxPeers .. (MaxPeers + MaxCallers - 1)
LockThreads == Workers \cup Callers
\* a thread between two operations: it holds no guard and goes for none.
\* `held` lists the guards in the order they were taken, `todo` holds the
\* guard of the lock() call the thread is in.
Outside(op) == [op |-> op, held |-> <<>>, todo |-> <<>>]
NoGuards == [t \in LockThreads |-> Outside("spawn")]

Init ==
  /\ guards = NoGuards
  /\ connections = <<>>
  /\ thread_channels = {}
  /\ channels = <<>>
  /\ dispatch = <<>>
  /\ inbox = [w \in Workers |-> <<>>]
  /\ closed = {}
  /\ poisoned = {}
  /\ peer_of = <<>>
  /\ wpc = [w \in Workers |-> "spawn"]
  /\ wconn = [w \in Workers |-> NoConn]
  /\ stop_pc = "idle"
  /\ stop_peers = {}
  /\ ncalls = 0
  /\ writes = <<>>
  /\ live = {}
  /\ ret = [op |-> "none", arg |-> 0, res |-> "none"]

----------------------------------------------------------------------------
\* The worker threads of start().

\* A faulty InsertedSender: the thread does not register its Sender.
InsertedSenderLost(w) == thread_channels
\* channels.insert(id, sender) on the guard of thread_channels
InsertedSender(w) == thread_channels \cup {w}

\* thread_channels.insert(id, sender), before the 'main loop
WorkerRegister(w) ==
  /\ wpc[w] = "spawn"
  /\ IF "thread_channels" \in poisoned
       THEN /\ wpc' = [wpc EXCEPT ![w] = "panicked"]
            /\ UNCHANGED thread_channels
       ELSE /\ thread_channels' = InsertedSender(w)
            /\ wpc' = [wpc EXCEPT ![w] = "recv"]
  /\ UNCHANGED guards
  /\ UNCHANGED <<connections, channels, dispatch, inbox, closed, poisoned,
                 peer_of, wconn, stopvars, ncalls, writes, live, ret>>

\* self.receiver.lock() then chan.recv(): blocks while the channel is empty
WorkerRecv(w) ==
  /\ wpc[w] = "recv"
  /\ dispatch # <<>>
  /\ dispatch' = Tail(dispatch)
  /\ IF Head(dispatch).type = "Stop"
       THEN /\ wpc' = [wpc EXCEPT ![w] = "exited"]
            /\ inbox' = [inbox EXCEPT ![w] = <<>>]
            /\ UNCHANGED wconn
       ELSE /\ wpc' = [wpc EXCEPT ![w] = "assign"]
            /\ wconn' = [wconn EXCEPT ![w] = Head(dispatch).conn]
            /\ UNCHANGED inbox
  /\ UNCHANGED guards
  /\ UNCHANGED <<connections, thread_channels, channels, closed, poisoned,
                 peer_of, stopvars, ncalls, writes, live, ret>>

\* channels.insert(connection.get_peer_id(), id)
AssignedChannels(w) == MapInsert(channels, PeerOf(wconn[w]), w)

\* self.channels.lock(), the insert, or the panic on a poisoned mutex
WorkerAssign(w) ==
  /\ wpc[w] = "assign"
  /\ IF "channels" \in poisoned
       THEN /\ wpc' = [wpc EXCEPT ![w] = "panicked"]
            /\ wconn' = [wconn EXCEPT ![w] = NoConn]
            /\ inbox' = [inbox EXCEPT ![w] = <<>>]
            /\ UNCHANGED channels
       ELSE /\ channels' = AssignedChannels(w)
            /\ wpc' = [wpc EXCEPT ![w] = "check"]
            /\ UNCHANGED <<wconn, inbox>>
  /\ UNCHANGED guards
  /\ UNCHANGED <<connections, thread_channels, dispatch, closed, poisoned,
                 peer_of, stopvars, ncalls, writes, live, ret>>

\* 'con: while !connection.is_closed()
WorkerCheck(w) ==
  /\ wpc[w] = "check"
  /\ IF wconn[w] \in closed
       THEN /\ wpc' = [wpc EXCEPT ![w] = "recv"]
            /\ wconn' = [wconn EXCEPT ![w] = NoConn]
       ELSE /\ wpc' = [wpc EXCEPT ![w] = "drain"]
            /\ UNCHANGED wconn
  /\ UNCHANGED guards
  /\ UNCHANGED <<connections, thread_channels, channels, dispatch, inbox,
                 closed, poisoned, peer_of, stopvars, ncalls, writes, live, ret>>

\* one round of `while let Ok(msg) = receiver.try_recv()`; send_bytes may fail
WorkerDrain(w) ==
  /\ wpc[w] = "drain"
  /\ IF inbox[w] = <<>>
       THEN /\ wpc' = [wpc EXCEPT ![w] = "listen"]
            /\ UNCHANGED <<inbox, wconn, writes>>
       ELSE LET msg == Head(inbox[w]) IN
            /\ inbox' = [inbox EXCEPT ![w] = Tail(inbox[w])]
            /\ IF msg.type = "Exit"
                 THEN /\ wpc' = [wpc EXCEPT ![w] = "recv"]
                      /\ wconn' = [wconn EXCEPT ![w] = NoConn]
                      /\ UNCHANGED writes
                 ELSE \E ok \in SendBytesResults :
                      /\ writes' = Append(writes,
                           [conn |-> wconn[w], bytes |-> msg.bytes,
                            to |-> msg.to, ok |-> ok])
                      /\ wpc' = [wpc EXCEPT ![w] = IF ok THEN "drain" ELSE "listen"]
                      /\ UNCHANGED wconn
  /\ UNCHANGED guards
  /\ UNCHANGED <<connections, thread_channels, channels, dispatch, closed,
                 poisoned, peer_of, stopvars, ncalls, live, ret>>

\* self.listen_connection(&mut buf, &connection): the read may find the
\* transport closed
WorkerListen(w) ==
  /\ wpc[w] = "listen"
  /\ closed' \in listen_connection(wconn[w])
  /\ wpc' = [wpc EXCEPT ![w] = "check"]
  /\ UNCHANGED guards
  /\ UNCHANGED <<connections, thread_channels, channels, dispatch, inbox,
                 poisoned, peer_of, wconn, stopvars, ncalls, writes, live, ret>>

\* the 'main loop: a worker thread that has registered
WorkerServe(w) ==
  \/ WorkerRecv(w)
  \/ WorkerAssign(w)
  \/ WorkerCheck(w)
  \/ WorkerDrain(w)
  \/ WorkerListen(w)

WorkerStep(w) == WorkerRegister(w) \/ WorkerServe(w)

----------------------------------------------------------------------------
\* The facade operations.  Each runs from its first lock() to its return with
\* the guard of `connections` (add_connection, remove_connection) or of
\* `channels` (send_to_peer) held, so each is one step.

\* A faulty Registered: the insert is lost.
RegisteredLost(c, p) == connections
\* connections.insert(peer_id, arc_connection.clone())
Registered(c, p) == MapInsert(connections, p, c)

\* A faulty AlreadyExists: the value insert() hands back is not looked at.
AlreadyExistsIgnored(p) == FALSE
\* `match connections.insert(peer_id, ..)`, the arm `Some(c)`: the map held
\* an entry for the peer id
AlreadyExists(p) == p \in DOMAIN connections

\* add_connection of a new Connection whose peer id is p: the connection is
\* moved in, so each is added at most once.  sender.send cannot fail (the
\* Receiver lives in the struct) and the mutex of `sender` is never poisoned:
\* no code panics while holding it.
add_connection(p) ==
  LET c == Len(peer_of) + 1 IN
  /\ ncalls < MaxCalls
  /\ ncalls' = ncalls + 1
  /\ peer_of' = Append(peer_of, p)
  /\ IF "connections" \in poisoned
       THEN /\ ret' = [op |-> "add_connection", arg |-> p, res |-> "OnLock"]
            /\ UNCHANGED <<connections, dispatch, poisoned, live>>
       ELSE IF AlreadyExists(p)
         THEN \* panic!("Connection {} already exists!"), guard held
              /\ connections' = Registered(c, p)
              /\ poisoned' = poisoned \cup {"connections"}
              /\ ret' = [op |-> "add_connection", arg |-> p, res |-> "panic"]
              /\ UNCHANGED <<dispatch, live>>
         ELSE /\ connections' = Registered(c, p)
              /\ dispatch' = ChanSend(dispatch, Listen(c))
              /\ live' = live \cup {c}
              /\ ret' = [op |-> "add_connection", arg |-> p, res |-> "Ok"]
              /\ UNCHANGED poisoned
  /\ UNCHANGED guards
  /\ UNCHANGED <<thread_channels, channels, inbox, closed, workervars,
                 stopvars, writes>>

\* What a control message sent to thread w's Sender does, under the guard of
\* thread_channels: the fields of the state it changes and the result.
Deliver(w, msg, st) ==
  IF "thread_channels" \in poisoned
    THEN [st EXCEPT !.res = "OnLock"]
    ELSE IF w \notin thread_channels
      THEN \* panic!("No thread found for id {}"), all held guards poisoned
           [st EXCEPT !.res = "panic",
                      !.poisoned = st.poisoned \cup {"channels", "thread_channels"}]
      ELSE IF ReceiverDropped(w)
        THEN [st EXCEPT !.res = "OnChannelMessage"]
        ELSE [st EXCEPT !.res = "Ok",
                        !.inbox = [inbox EXCEPT ![w] = ChanSend(inbox[w], msg)]]

\* The state as remove_connection and send_to_peer find it.
Before ==
  [res |-> "none", connections |-> connections, closed |-> closed,
   channels |-> channels, inbox |-> inbox, poisoned |-> poisoned]

\* A faulty RemoveAbsent: the assignment is cleaned up before the lookup.
RemoveAbsentCleaning(p) ==
  [Before EXCEPT !.res = "PeerNotFound", !.channels = MapRemove(channels, p)]
\* remove_connection, `None => Err(P2pError::PeerNotFound(*peer_id))`
RemoveAbsent(p) == [Before EXCEPT !.res = "PeerNotFound"]

\* remove_connection, the `Some(connection)` arm after the close succeeded or
\* was not needed; st holds the registry and the closed flag already updated.
\* The guard of `connections` is a temporary of the match scrutinee: it is
\* held to the end of the match, so a panic here poisons it too.
RemoveAssigned(p, st) ==
  IF "channels" \in poisoned
    THEN [st EXCEPT !.res = "OnLock"]
    ELSE IF p \notin DOMAIN channels
      THEN \* panic!("No channel found for a connection found!")
           [st EXCEPT !.res = "panic",
                      !.poisoned = poisoned \cup {"connections", "channels"}]
      ELSE LET sent == Deliver(channels[p], Exit(p),
                         [st EXCEPT !.channels = MapRemove(channels, p)])
           IN IF sent.res = "panic"
                THEN [sent EXCEPT !.poisoned = sent.poisoned \cup {"connections"}]
                ELSE sent

\* remove_connection, the `Some(connection)` arm; close_ok is what
\* connection.close() answers when the connection is still open
RemovePresent(p, close_ok) ==
  LET c == connections[p]
      gone == [Before EXCEPT !.connections = MapRemove(connections, p)]
  IN IF c \notin closed /\ ~close_ok
       THEN [gone EXCEPT !.res = "OnConnectionClose"]
       ELSE RemoveAssigned(p, [gone EXCEPT !.closed = closed \cup {c}])

\* remove_connection, from the state it finds to the state it leaves
RemoveOutcome(p, close_ok) ==
  IF "connections" \in poisoned
    THEN [Before EXCEPT !.res = "panic"]   \* lock().unwrap()
    ELSE IF p \notin DOMAIN connections
      THEN RemoveAbsent(p)
      ELSE RemovePresent(p, close_ok)

\* remove_connection as called by anyone: by the caller of the facade, or by
\* stop() (the callers add what happens to stop's own state)
remove_connection(p) ==
  \E close_ok \in CloseResults :
    LET out == RemoveOutcome(p, close_ok) IN
    /\ connections' = out.connections
    /\ closed' = out.closed
    /\ channels' = out.channels
    /\ inbox' = out.inbox
    /\ poisoned' = out.poisoned
    /\ live' = IF p \in DOMAIN connections /\ p \notin DOMAIN out.connections
                 THEN live \ {connections[p]} ELSE live
    /\ ret' = [op |-> "remove_connection", arg |-> p, res |-> out.res]
    /\ UNCHANGED guards
    /\ UNCHANGED <<thread_channels, dispatch, peer_of, workervars, writes>>

RemoveConnection(p) ==
  /\ ncalls < MaxCalls
  /\ ncalls' = ncalls + 1
  /\ remove_connection(p)
  /\ UNCHANGED stopvars

\* send_to_peer, from the state it finds to the state it leaves
SendOutcome(p, b) ==
  IF "channels" \in poisoned
    THEN [Before EXCEPT !.res = "OnLock"]
    ELSE IF p \notin DOMAIN channels
      THEN [Before EXCEPT !.res = "PeerNotFound"]
      ELSE Deliver(channels[p], SendBytes(b, p), Before)

\* send_to_peer: the code never looks into the bytes, so the call that is the
\* n-th of the run carries the byte string n
send_to_peer(p) ==
  /\ ncalls < MaxCalls
  /\ ncalls' = ncalls + 1
  /\ LET out == SendOutcome(p, ncalls + 1) IN
     /\ inbox' = out.inbox
     /\ poisoned' = out.poisoned
     /\ ret' = [op |-> "send_to_peer", arg |-> p, res |-> out.res]
  /\ UNCHANGED guards
  /\ UNCHANGED <<connections, thread_channels, channels, dispatch, closed,
                 peer_of, workervars, stopvars, writes, live>>

----------------------------------------------------------------------------
\* stop(): the snapshot, one remove_connection per peer of it, the Stop
\* messages.  Calls of stop() follow one another.

\* the `for _ in 0..self.max_peers` loop under the guard of `sender`
RECURSIVE StopsSent(_, _)
StopsSent(q, n) == IF n = 0 THEN q ELSE StopsSent(ChanSend(q, Stop), n - 1)

\* self.get_connections_id(), or panic!("Couldn't lock connections: {}")
StopBegin ==
  /\ stop_pc = "idle"
  /\ ncalls < MaxCalls
  /\ ncalls' = ncalls + 1
  /\ IF "connections" \in poisoned
       THEN /\ ret' = [op |-> "stop", arg |-> 0, res |-> "panic"]
            /\ UNCHANGED <<stop_pc, stop_peers>>
       ELSE /\ stop_pc' = "removing"
            /\ stop_peers' = get_connections_id
            /\ UNCHANGED ret
  /\ UNCHANGED guards
  /\ UNCHANGED <<connections, thread_channels, channels, dispatch, inbox,
                 closed, poisoned, peer_of, workervars, writes, live>>

\* `for peer in peers`: an Err is printed, a panic ends the call
StopRemove ==
  /\ stop_pc = "removing"
  /\ \E p \in stop_peers :
       /\ remove_connection(p)
       /\ IF ret'.res = "panic"
            THEN stop_pc' = "idle" /\ stop_peers' = {}
            ELSE stop_pc' = stop_pc /\ stop_peers' = stop_peers \ {p}
  /\ UNCHANGED ncalls

\* self.sender.lock() and max_peers times sender.send(ThreadMessage::Stop)
StopPush ==
  /\ stop_pc = "removing"
  /\ stop_peers = {}
  /\ dispatch' = StopsSent(dispatch, MaxPeers)
  /\ stop_pc' = "idle"
  /\ ret' = [op |-> "stop", arg |-> 0, res |-> "Ok"]
  /\ UNCHANGED guards
  /\ UNCHANGED <<connections, thread_channels, channels, inbox, closed,
                 poisoned, peer_of, workervars, stop_peers, ncalls,
                 writes, live>>

StopStep == StopBegin \/ StopRemove \/ StopPush

----------------------------------------------------------------------------
Next ==
  \/ \E w \in Workers : WorkerStep(w)
  \/ \E p \in PeerIds : add_connection(p)
  \/ \E p \in PeerIds : RemoveConnection(p)
  \/ \E p \in PeerIds : send_to_peer(p)
  \/ StopStep

Spec == Init /\ [][Next]_vars

\* Every thread that can take a step takes it in the end: the worker threads
\* and the thread inside stop() are scheduled by the operating system.
FairSpec ==
  /\ Spec
  /\ \A w \in Workers : WF_vars(WorkerStep(w))
  /\ WF_vars(StopRemove \/ StopPush)

\* The server full: max_peers connections were added, peer w + 1 on
\* connection w + 1, and worker w has taken connection w + 1 and recorded it.
AtCapacity ==
  /\ guards = NoGuards
  /\ connections = [p \in 1 .. MaxPeers |-> p]
  /\ thread_channels = Workers
  /\ channels = [p \in 1 .. MaxPeers |-> p - 1]
  /\ dispatch = <<>>
  /\ inbox = [w \in Workers |-> <<>>]
  /\ closed = {}
  /\ poisoned = {}
  /\ peer_of = [c \in 1 .. MaxPeers |-> c]
  /\ wpc = [w \in Workers |-> "check"]
  /\ wconn = [w \in Workers |-> w + 1]
  /\ stop_pc = "idle"
  /\ stop_peers = {}
  /\ writes = <<>>
  /\ live = 1 .. MaxPeers
  /\ ret = [op |-> "add_connection", arg |-> MaxPeers, res |-> "Ok"]

\* a run that starts with the server full has MaxCallsFull facade calls left
CapacityInit == AtCapacity /\ ncalls = MaxCalls - MaxCallsFull

\* every worker has registered: WorkerRegister has nothing left to do
CapacityNext ==
  \/ \E w \in Workers : WorkerServe(w)
  \/ \E p \in PeerIds : add_connection(p)
  \/ \E p \in PeerIds : RemoveConnection(p)
  \/ \E p \in PeerIds : send_to_peer(p)
  \/ StopStep

\* the runs of a full server, the threads scheduled as in FairSpec
CapacitySpec ==
  /\ CapacityInit
  /\ [][CapacityNext]_vars
  /\ \A w \in Workers : WF_vars(WorkerServe(w))
  /\ WF_vars(StopRemove \/ StopPush)

----------------------------------------------------------------------------
\* The mutexes.  Which guards an operation holds does not depend on what the
\* maps contain beyond the branch the operation takes, so the threads are
\* followed here through their lock() calls alone: a thread takes the guards
\* of its operation one inside the other, blocks while another thread holds
\* the one it goes for, and drops them innermost first on its way out.

\* the Mutex fields of the struct
Guards == {"connections", "thread_channels", "channels", "sender", "receiver"}
\* the holder of a free mutex
NoThread == -1

HeldBy(t) == {guards[t].held[i] : i \in DOMAIN guards[t].held}
Holder(g) ==
  IF \E t \in LockThreads : g \in HeldBy(t)
    THEN CHOOSE t \in LockThreads : g \in HeldBy(t)
    ELSE NoThread

\* the queries and get_connections_id: connections.lock()
QueryGuards == <<"connections">>
\* add_connection: connections.lock() and, inside the arm `None`, sender.lock()
AddGuards == <<"connections", "sender">>
\* remove_connection: the guard of connections is a temporary of the match
\* scrutinee and lives to the end of the match; inside it channels.lock()
\* and, inside that, thread_channels.lock()
RemoveGuards == <<"connections", "channels", "thread_channels">>
\* A faulty SendGuards: the thread's Sender is looked up first.
SendGuardsReversed == <<"thread_channels", "channels">>
\* send_to_peer: channels.lock() and, inside it, thread_channels.lock()
SendGuards == <<"channels", "thread_channels">>
\* stop, after its get_connections_id and remove_connection calls, which
\* hold nothing when they return: sender.lock()
StopGuards == <<"sender">>

\* an operation may return early (an Err arm, a `None` arm, a panic): it
\* then has taken only the outer guards
Paths(nest) == {SubSeq(nest, 1, n) : n \in 1 .. Len(nest)}
\* the guards a call of the facade may take, in the order it takes them
FacadePaths ==
  UNION {Paths(nest) : nest \in
           {QueryGuards, AddGuards, RemoveGuards, SendGuards, StopGuards}}

\* the three lock() calls of a worker thread, one guard each
WorkerGuards(op) ==
  CASE op = "register" -> <<"thread_channels">>
    [] op = "recv" -> <<"receiver">>
    [] op = "assign" -> <<"channels">>
\* their order in start(): the insert into thread_channels, then recv()
\* under the guard of receiver, which ends the thread on Stop and is
\* followed by channels.insert on Listen, then recv() again
WorkerNext(op) ==
  CASE op = "spawn" -> {"register"}
    [] op = "register" -> {"recv"}
    [] op = "recv" -> {"assign", "exited"}
    [] op = "assign" -> {"recv"}

Idle(t) == guards[t].held = <<>> /\ guards[t].todo = <<>>
\* the worker thread goes for the guard of its lock() call op, or has ended
WorkerAt(op) ==
  IF op = "exited" THEN Outside(op)
  ELSE [op |-> op, held |-> <<>>, todo |-> WorkerGuards(op)]

\* the guards a thread that holds `held` may go for next: the first guard
\* of a call for a caller that holds none, the next inner lock() of the call
\* otherwise; none for a worker, which takes one guard at a time
Inner(t, held) ==
  IF t \in Callers
    THEN {g \in Guards : Append(held, g) \in FacadePaths}
    ELSE {}

\* a caller enters an operation of the facade and comes to its first lock()
LockCall(t) ==
  /\ t \in Callers
  /\ Idle(t)
  /\ \E g \in Inner(t, <<>>) :
       guards' = [guards EXCEPT ![t] = [op |-> "call", held |-> <<>>, todo |-> <<g>>]]
  /\ UNCHANGED servervars

\* a worker thread starts
LockWorker(t) ==
  /\ t \in Workers
  /\ guards[t].op = "spawn"
  /\ \E op \in WorkerNext(guards[t].op) : guards' = [guards EXCEPT ![t] = WorkerAt(op)]
  /\ UNCHANGED servervars

\* lock() returns, the mutex was free; what the thread reads under the guard
\* decides whether it comes to the next inner lock() or to the end of the
\* guard's scope
LockAcquire(t) ==
  /\ guards[t].todo # <<>>
  /\ Holder(Head(guards[t].todo)) = NoThread
  /\ LET held == Append(guards[t].held, Head(guards[t].todo)) IN
     \E todo \in {<<>>} \cup {<<g>> : g \in Inner(t, held)} :
       guards' = [guards EXCEPT ![t].held = held, ![t].todo = todo]
  /\ UNCHANGED servervars

\* a caller's innermost guard goes out of scope
LockRelease(t) ==
  /\ t \in Callers
  /\ guards[t].todo = <<>>
  /\ guards[t].held # <<>>
  /\ guards' = [guards EXCEPT ![t].held = SubSeq(@, 1, Len(@) - 1)]
  /\ UNCHANGED servervars

\* a worker's guard goes out of scope and the thread runs on to its next
\* lock() call (chan.recv() has returned, when the guard is the receiver's)
LockWorkerRelease(t) ==
  /\ t \in Workers
  /\ guards[t].todo = <<>>
  /\ guards[t].held # <<>>
  /\ \E op \in WorkerNext(guards[t].op) : guards' = [guards EXCEPT ![t] = WorkerAt(op)]
  /\ UNCHANGED servervars

LockNext ==
  \E t \in LockThreads :
    \/ LockCall(t)
    \/ LockWorker(t)
    \/ LockAcquire(t)
    \/ LockRelease(t)
    \/ LockWorkerRelease(t)

LockSpec == Init /\ [][LockNext]_vars

\* thread t is blocked in lock(): the mutex it goes for is held
Waiting(t) ==
  guards[t].todo # <<>> /\ Holder(Head(guards[t].todo)) # NoThread
WaitsFor(t) == Holder(Head(guards[t].todo))
\* from t, following at most n blocked threads to the holder each waits
\* for, one comes to u
RECURSIVE Reaches(_, _, _)
Reaches(t, u, n) ==
  /\ n > 0
  /\ Waiting(t)
  /\ WaitsFor(t) = u \/ Reaches(WaitsFor(t), u, n - 1)

----------------------------------------------------------------------------
\* What the claims speak of.

Range(q) == {q[i] : i \in DOMAIN q}
\* a worker thread inside the 'con loop of the connection it holds
InInnerLoop(w) == wpc[w] \in {"check", "drain", "listen"}
\* p is registered and no worker has recorded its connection yet: the Listen
\* message is still queued, or its receiver has not reached channels.insert
Unclaimed(p) ==
  /\ p \in DOMAIN connections
  /\ \/ Listen(connections[p]) \in Range(dispatch)
     \/ \E w \in Workers : wpc[w] = "assign" /\ wconn[w] = connections[p]
AllExited == \A w \in Workers : wpc[w] = "exited"
NoPanicSoFar == poisoned = {} /\ \A w \in Workers : wpc[w] # "panicked"
\* stop() is running or has sent its Stop messages
StopSeen ==
  \/ stop_pc # "idle"
  \/ Stop \in Range(dispatch)
  \/ \E w \in Workers : wpc[w] = "exited"

----------------------------------------------------------------------------
\* C1: whenever get_peer_count() returns (the mutex of `connections` is not
\* poisoned), it returns the number of connections that add_connection
\* accepted and remove_connection has not taken out of the registry since.
C1_PeerCountIsLive ==
  "connections" \notin poisoned => get_peer_count = Cardinality(live)

\* C1 witness: two connections were added, one of them was removed again.
C1_Witness ==
  /\ poisoned = {}
  /\ Len(peer_of) = 2
  /\ Cardinality(live) = 1
  /\ ret.op = "remove_connection" /\ ret.res = "Ok"
  /\ get_peer_count = 1

\* C2: the registry never holds more than max_peers entries, so
\* get_slots_available() = max_peers - get_peer_count() is never negative.
C2_SlotsNeverNegative ==
  /\ get_peer_count <= MaxPeers
  /\ get_slots_available >= 0

\* C3: accept_new_connections() is false exactly when get_peer_count() is
\* max_peers.
C3_AcceptIffFull == (~accept_new_connections) <=> (get_peer_count = MaxPeers)

\* C4: a connection that add_connection accepted is in get_connections() for
\* as long as it is not removed, and in the end a worker is recorded for its
\* peer id.  Stated with every excuse granted: nothing is asked once the
\* connection is removed, stop() was called or some thread has panicked.
C4_AddedIsAssigned ==
  /\ [](\A c \in Conns : c \in live /\ "connections" \notin poisoned
                           => c \in get_connections)
  /\ \A c \in Conns :
       (c \in live) ~> \/ c \notin live
                       \/ PeerOf(c) \in DOMAIN channels
                       \/ StopSeen
                       \/ ~NoPanicSoFar

\* C5: remove_connection(id) of a registered id leaves is_connected_to(id)
\* false and get_connection(id) failing with PeerNotFound, and the worker that
\* holds the removed connection leaves its inner loop in the end.
C5_RemovedIsReleased ==
  /\ [][\A p \in PeerIds :
          (p \in DOMAIN connections /\ "connections" \notin poisoned
             /\ remove_connection(p))
          => (~is_connected_to(p))' /\ get_connection(p)' = "PeerNotFound"]_vars
  /\ \A w \in Workers : \A c \in Conns :
       (InInnerLoop(w) /\ wconn[w] = c /\ c \notin live)
         ~> (wconn[w] # c)

\* C6: remove_connection(id) of an id that is not registered returns
\* PeerNotFound and changes neither the registry, the assignments, the
\* dispatch queue, any inbox nor any closed flag.
C6_RemoveAbsentNoEffect ==
  [][\A p \in PeerIds :
       (p \notin DOMAIN connections /\ "connections" \notin poisoned
          /\ remove_connection(p))
       => /\ ret'.res = "PeerNotFound"
          /\ UNCHANGED <<connections, channels, thread_channels, dispatch,
                         inbox, closed>>]_vars

\* C6 witness: the call was made for an id that a worker is still recorded
\* for although the registry no longer holds it.
C6_Witness ==
  /\ ret.op = "remove_connection" /\ ret.res = "PeerNotFound"
  /\ ret.arg \notin DOMAIN connections
  /\ ret.arg \in DOMAIN channels

\* C7: send_to_peer(id, bytes) for an id that is not registered, or that is
\* registered and not yet claimed by a worker, fails with PeerNotFound, puts
\* no message into any inbox and causes no write.  (The mutex of `channels`
\* is taken to be sound: poisoned, the call answers OnLock.)
C7_SendUnknownFails ==
  [][\A p \in PeerIds :
       (/\ p \notin DOMAIN connections \/ Unclaimed(p)
        /\ "channels" \notin poisoned
        /\ send_to_peer(p))
       => ret'.res = "PeerNotFound" /\ UNCHANGED <<inbox, writes>>]_vars

\* C8: the bytes of a send_to_peer(id, bytes) that returned Ok are written
\* once, and on a connection of peer id, never on another peer's connection.
C8_WrittenOnceToAddressee ==
  \A i \in DOMAIN writes :
    /\ PeerOf(writes[i].conn) = writes[i].to
    /\ \A j \in DOMAIN writes : writes[j].bytes = writes[i].bytes => j = i

\* C9: two send_to_peer calls to the same peer whose bytes are written on the
\* same connection are written in the order of the calls (the n-th call of a
\* run carries the byte string n), a failed write included.
C9_SendOrderKept ==
  \A i \in DOMAIN writes : \A j \in DOMAIN writes :
    (i < j /\ writes[i].conn = writes[j].conn /\ writes[i].to = writes[j].to)
      => writes[i].bytes < writes[j].bytes

\* C9 witness: two writes for the connection's own peer, the first one failed.
C9_Witness ==
  \E i \in DOMAIN writes : \E j \in DOMAIN writes :
    /\ i < j
    /\ writes[i].conn = writes[j].conn
    /\ writes[i].to = PeerOf(writes[i].conn)
    /\ writes[j].to = writes[i].to
    /\ ~writes[i].ok

\* C10: once stop() runs, every worker thread ends (each has consumed one
\* Stop message), so that start() returns.
C10_StopEndsWorkers == (stop_pc = "removing") ~> AllExited

\* C11: whatever a remove_connection call made by stop() runs into, stop()
\* goes on: from its loop over the snapshot it only moves to the next peer
\* of the snapshot, and it ends only with the snapshot used up and with
\* exactly max_peers Stop messages added to the dispatch queue.
C11_StopContinues ==
  [][stop_pc = "removing" =>
       \/ stop_pc' = "removing" /\ stop_peers' \subseteq stop_peers
       \/ /\ stop_peers = {}
          /\ dispatch' = StopsSent(dispatch, MaxPeers)
          /\ Len(dispatch') = Len(dispatch) + MaxPeers]_vars

\* C12: remove_connection(id) of a registered id succeeds whether or not a
\* worker has recorded the peer yet: it never aborts, the registry entry and
\* the assignment (if there is one) are gone, and Exit goes to the inbox of
\* the recorded worker and to no other inbox.  Taken with no mutex poisoned,
\* the close going through and the recorded worker still running.
C12_RemoveRegisteredSucceeds ==
  [][\A p \in PeerIds :
       (/\ p \in DOMAIN connections
        /\ poisoned = {}
        /\ p \in DOMAIN channels => ~ReceiverDropped(channels[p])
        /\ remove_connection(p)
        /\ connections[p] \in closed')
       => /\ ret'.res = "Ok"
          /\ poisoned' = {}
          /\ p \notin DOMAIN connections'
          /\ p \notin DOMAIN channels'
          /\ \A w \in Workers :
               IF p \in DOMAIN channels /\ channels[p] = w
                 THEN inbox'[w] = Append(inbox[w], Exit(p))
                 ELSE inbox'[w] = inbox[w]]_vars

\* C13: when connection.close() fails inside remove_connection(id), the
\* connection is removed all the same: id is in neither the registry nor the
\* assignments afterwards and Exit was put into the inbox of the worker
\* recorded for id.
C13_CloseFailureStillRemoves ==
  [][\A p \in PeerIds :
       (/\ p \in DOMAIN connections
        /\ p \in DOMAIN channels
        /\ poisoned = {}
        /\ ~ReceiverDropped(channels[p])
        /\ remove_connection(p)
        /\ ret'.res = "OnConnectionClose")
       => /\ p \notin DOMAIN connections'
          /\ p \notin DOMAIN channels'
          /\ inbox'[channels[p]] = Append(inbox[channels[p]], Exit(p))]_vars

\* C14: add_connection of a peer id the registry already holds is fatal (the
\* call panics), sends no Listen message, and leaves the registry with the
\* same ids and exactly one connection for that id.  (Taken with the mutex
\* of `connections` sound: poisoned, the call answers OnLock.)
C14_DuplicateIsFatal ==
  [][\A p \in PeerIds :
       (p \in DOMAIN connections /\ "connections" \notin poisoned
          /\ add_connection(p))
       => /\ ret'.res = "panic"
          /\ dispatch' = dispatch
          /\ DOMAIN connections' = DOMAIN connections
          /\ Cardinality({c \in get_connections' : peer_of'[c] = p}) = 1]_vars

\* C14 witness: a second connection with the id of a registered peer was
\* added while a worker serviced the first one.
C14_Witness ==
  /\ ret.op = "add_connection" /\ ret.res = "panic"
  /\ ret.arg \in DOMAIN connections
  /\ \E w \in Workers :
       InInnerLoop(w) /\ PeerOf(wconn[w]) = ret.arg
         /\ connections[ret.arg] # wconn[w]

\* the connections a run that starts with the server full can come to hold
ConnsFull == 1 .. (MaxPeers + MaxCallsFull)
\* worker w services connection c: it is inside the 'con loop of c
Services(w, c) == InInnerLoop(w) /\ wconn[w] = c

\* C15: the server being full with every connection claimed, after a
\* remove_connection the add_connection of a new peer succeeds, the new
\* connection is claimed by a worker in the end, and a worker that services
\* a connection keeps servicing it until the connection is removed or
\* closed.  Nothing is asked of the claiming once stop() was called, a
\* thread has panicked or the registry holds more than max_peers entries.
C15_FreedSlotIsReused ==
  /\ [][\A p \in PeerIds :
          (/\ get_peer_count < MaxPeers
           /\ p \notin DOMAIN connections
           /\ "connections" \notin poisoned
           /\ add_connection(p))
          => ret'.res = "Ok" /\ (Len(peer_of') \in live')]_vars
  /\ \A c \in ConnsFull :
       (c \in live) ~> \/ \E w \in Workers : Services(w, c)
                       \/ c \notin live
                       \/ c \in closed
                       \/ StopSeen
                       \/ ~NoPanicSoFar
                       \/ Cardinality(live) > MaxPeers
  /\ [][\A w \in Workers : \A c \in ConnsFull :
          (Services(w, c) /\ c \in live /\ c \notin closed)
          => (Services(w, c))' \/ c \notin live' \/ c \in closed']_vars

\* an earlier call of stop() has run to its end: its Stop messages are in
\* the dispatch queue or were taken by workers that ended
StopCompleted ==
  \/ Stop \in Range(dispatch)
  \/ \E w \in Workers : wpc[w] = "exited"

\* C16: a call of stop() made after an earlier call of stop() has completed,
\* with the registry empty, does not fail and leaves the registry, the
\* assignments, the dispatch queue and the workers as they were.
C16_StopIdempotent ==
  [][(/\ StopCompleted
      /\ connections = <<>>
      /\ stop_pc = "removing"
      /\ stop_pc' = "idle")
     => /\ ret'.op = "stop" /\ ret'.res = "Ok"
        /\ UNCHANGED <<connections, channels, dispatch, wpc, wconn>>]_vars

\* C17: no thread ever holds more than one of the guards of connections,
\* channels, thread_channels, sender and receiver at the same time.
C17_OneGuardAtATime ==
  \A t \in LockThreads : Cardinality(HeldBy(t)) <= 1

\* C18: no set of threads ever waits in a cycle for each other's guards: no
\* thread blocked in lock() waits, through the holders, for itself.
C18_NoGuardCycle ==
  \A t \in LockThreads : ~Reaches(t, t, Cardinality(LockThreads))

\* C18 witness: a caller inside remove_connection holds the guards of
\* connections and channels and is blocked on thread_channels, while another
\* thread is blocked on a guard that caller holds.
C18_Witness ==
  \E t \in Callers : \E u \in LockThreads \ {t} : \E v \in LockThreads \ {t, u} :
    /\ guards[t].held = <<"connections", "channels">>
    /\ Waiting(t) /\ WaitsFor(t) = v
    /\ Waiting(u) /\ WaitsFor(u) = t

\* C19: a worker thread has registered its Sender in thread_channels before
\* it first receives from the dispatch channel, so every thread id recorded
\* in channels is registered, and the panic "No thread found for id" of
\* remove_connection and send_to_peer never happens (it alone can poison the
\* mutex of thread_channels).
C19_RecordedThreadIsRegistered ==
  /\ \A w \in Workers :
       wpc[w] \in {"recv", "assign", "check", "drain", "listen", "exited"}
         => w \in thread_channels
  /\ \A p \in DOMAIN channels : channels[p] \in thread_channels
  /\ "thread_channels" \notin poisoned

\* C19 witness: the Sender of the thread recorded for a peer was looked up:
\* remove_connection has sent Exit to it.
C19_Witness ==
  /\ ret.op = "remove_connection" /\ ret.res = "Ok"
  /\ \E w \in Workers : Exit(ret.arg) \in Range(inbox[w])

\* C20: whenever channels maps peer p to thread w, thread w is inside the
\* 'con loop of a connection of peer p.
C20_AssignmentMeansServicing ==
  \A p \in DOMAIN channels :
    \E c \in created : PeerOf(c) = p /\ Services(channels[p], c)

\* C21: a control message a worker takes from its inbox inside the 'con loop
\* was sent for the peer of the connection it services: an Exit ends the
\* servicing of the peer remove_connection was called for and of no other,
\* and no SendBytes addressed to an earlier peer is written.
C21_ExitEndsOwnPeerOnly ==
  [][\A w \in Workers :
       (wpc[w] = "drain" /\ inbox[w] # <<>> /\ WorkerDrain(w))
       => Head(inbox[w]).to = PeerOf(wconn[w])]_vars

\* C22: every peer id that channels holds is registered in connections.
C22_AssignedIsRegistered == DOMAIN channels \subseteq DOMAIN connections

====
